---- MODULE Spec2Model ----
(***************************************************************************)
(* voxface: main() of src/voxface/__main__.py as a state machine.          *)
(*                                                                         *)
(* One invocation of the command line program is a record (pc, args,       *)
(* local variables of main(), the file system it sees, what it printed,    *)
(* its exit status).  Two invocations are carried side by side: `run`      *)
(* without --verbose and `twin` with it, started on the same arguments and *)
(* the same files and given the same library outcomes at every step.       *)
(*                                                                         *)
(* Lengths are whole millimetres.  A volume has a matrix size (dims), a    *)
(* field of view per axis (fov, so that spacing = fov / dims), origin 0    *)
(* and identity direction, and one integer intensity per voxel.            *)
(* The ANTs library is outside the repository: its calls are modelled by   *)
(* what the call site asks for (target grid, interpolator), any call may   *)
(* raise, and the registration may return any transform of a small set.    *)
(***************************************************************************)
EXTENDS Integers, Sequences, FiniteSets, TLC

VARIABLES run, twin

vars == <<run, twin>>

---------------------------------------------------------------------------
(* Bounds of the model *)

MaxDim == 2          \* matrix size per axis of the subject volume: 1..MaxDim
MaxShift == 1        \* translation of a registration result: -MaxShift..MaxShift mm

Spacings == {1, 2}             \* isotropic voxel spacing of the subject, mm
Voxdims == {1, 2, 3, 5}        \* --voxdim values, mm (positive)
Seeds == {0, 1}                \* intensity patterns of the subject
Scales == {1, 2}               \* scale factor of a registration result

Axes == {1, 2, 3}

---------------------------------------------------------------------------
(* Integer helpers *)

Min(a, b) == IF a < b THEN a ELSE b

Max(a, b) == IF a > b THEN a ELSE b

\* np.round(p / q), q > 0: round half to even
RoundHalfEven(p, q) ==
    LET f == p \div q
        m == p % q
    IN  IF 2 * m < q THEN f
        ELSE IF 2 * m > q THEN f + 1
        ELSE IF f % 2 = 0 THEN f ELSE f + 1

\* nearest integer to p / q, q > 0, halves upwards (nearest neighbour index)
RoundHalfUp(p, q) == (2 * p + q) \div (2 * q)

RECURSIVE Gcd(_, _)
Gcd(a, b) == IF b = 0 THEN a ELSE Gcd(b, a % b)

---------------------------------------------------------------------------
(* Volumes *)

NoVolume == [kind |-> "none", dims |-> <<0, 0, 0>>, fov |-> <<0, 0, 0>>, data |-> <<>>]

Truncated == [kind |-> "truncated", dims |-> <<0, 0, 0>>, fov |-> <<0, 0, 0>>, data |-> <<>>]

Voxels(dims) == (0 .. dims[1] - 1) \X (0 .. dims[2] - 1) \X (0 .. dims[3] - 1)

Volume(dims, fov, data) == [kind |-> "volume", dims |-> dims, fov |-> fov, data |-> data]

\* AntsImage.shape
Shape(img) == img.dims

\* AntsImage.spacing, per axis a reduced fraction <<numerator, denominator>>
Spacing(img) ==
    [a \in Axes |->
        LET g == Gcd(img.fov[a], img.dims[a])
        IN  IF g = 0 THEN <<0, 0>> ELSE <<img.fov[a] \div g, img.dims[a] \div g>>]

SameGrid(a, b) == Shape(a) = Shape(b) /\ Spacing(a) = Spacing(b)

Background == 0

---------------------------------------------------------------------------
(* The ANTs calls main() makes *)

\* Source index of the sample for target voxel v, axis a, as a fraction num/den
\* when a volume of matrix size nin is resampled to matrix size nout over the
\* same field of view
SampleNum(v, a, nin) == v[a] * nin[a]

\* interp_type=1 and interpolator='nearestNeighbor': the value of the closest
\* source voxel, the background outside the source buffer
NearestNeighbor(img, num, den) ==
    LET idx == [a \in Axes |-> RoundHalfUp(num[a], den[a])]
        inside == \A a \in Axes : 0 <= idx[a] /\ idx[a] < img.dims[a]
    IN  IF inside THEN img.data[<<idx[1], idx[2], idx[3]>>] ELSE Background

\* interp_type=4: a smooth kernel over the source voxels around the sample
\* point (the two enclosing corners stand for the B-spline support)
BSpline(img, num, den) ==
    LET lo == [a \in Axes |-> Max(0, num[a] \div den[a])]
        hi == [a \in Axes |-> Min(img.dims[a] - 1, (num[a] + den[a] - 1) \div den[a])]
        inside == \A a \in Axes : lo[a] < img.dims[a] /\ hi[a] >= 0
    IN  IF inside
        THEN (img.data[<<lo[1], lo[2], lo[3]>>] + img.data[<<hi[1], hi[2], hi[3]>>]) \div 2
        ELSE Background

Interpolate(interp_type, img, num, den) ==
    IF interp_type = 4 THEN BSpline(img, num, den) ELSE NearestNeighbor(img, num, den)

\* ants.resample_image(image, resample_params, use_voxels=True, interp_type):
\* a volume of matrix size resample_params over the field of view of image
ResampleImage(image, resample_params, interp_type) ==
    Volume(resample_params, image.fov,
           [v \in Voxels(resample_params) |->
               Interpolate(interp_type, image,
                           [a \in Axes |-> SampleNum(v, a, image.dims)],
                           [a \in Axes |-> resample_params[a]])])

\* A transform maps a point of the fixed space to a point of the moving space:
\* scale on every axis, shift along the first axis
NoTransform == [scale |-> 0, shift |-> 0]

Transforms == [scale : Scales, shift : -MaxShift .. MaxShift]

ShiftVec(tx) == <<tx.shift, 0, 0>>

\* ants.apply_transforms(fixed, moving, transformlist, interpolator): the moving
\* volume sampled on the grid of the fixed volume
ApplyTransformsImage(fixed, moving, tx, interp_type) ==
    Volume(fixed.dims, fixed.fov,
           [v \in Voxels(fixed.dims) |->
               Interpolate(interp_type, moving,
                   [a \in Axes |->
                       (tx.scale * v[a] * fixed.fov[a] + ShiftVec(tx)[a] * fixed.dims[a])
                           * moving.dims[a]],
                   [a \in Axes |-> fixed.dims[a] * moving.fov[a]])])

\* AntsImage.new_image_like(np.ones(shape))
OnesLike(img) == Volume(img.dims, img.fov, [v \in Voxels(img.dims) |-> 1])

\* AntsImage operators: voxelwise on the arrays, the result on the grid of the
\* left operand
ImageMul(a, b) == Volume(a.dims, a.fov, [v \in Voxels(a.dims) |-> a.data[v] * b.data[v]])

ImageAdd(a, b) == Volume(a.dims, a.fov, [v \in Voxels(a.dims) |-> a.data[v] + b.data[v]])

ImageSub(a, b) == Volume(a.dims, a.fov, [v \in Voxels(a.dims) |-> a.data[v] - b.data[v]])

\* The composite with the two weights exchanged
CompositeImage_Swapped(faced_ai, ind_facemask_ai, voxed_ai) ==
    ImageAdd(ImageMul(voxed_ai, ind_facemask_ai),
             ImageMul(faced_ai, ImageSub(OnesLike(faced_ai), ind_facemask_ai)))

\* faced_ai * ind_facemask_ai + voxed_ai * (ones_ai - ind_facemask_ai)
CompositeImage(faced_ai, ind_facemask_ai, voxed_ai) ==
    ImageAdd(ImageMul(faced_ai, ind_facemask_ai),
             ImageMul(voxed_ai, ImageSub(OnesLike(faced_ai), ind_facemask_ai)))

\* The matrix size divided by voxdim, the spacing left out
DownsampledDim_NoSpacing(n, v, voxdim) == RoundHalfEven(n, voxdim)

\* np.round(n * v / voxdim).astype(int), v the spacing as a fraction
DownsampledDim(n, v, voxdim) == RoundHalfEven(n * v[1], v[2] * voxdim)

---------------------------------------------------------------------------
(* File names *)

\* A path is a sequence of tokens; ".nii.gz" and ".nii" are tokens
NoArg == <<"<absent>">>

Cwd == <<"/">>

\* op.realpath(p)
RealPath(p) == IF p # <<>> /\ p[1] = "/" THEN p ELSE Cwd \o p

\* str.replace(old, new), old one token and new a sequence of tokens
RECURSIVE Replace(_, _, _)
Replace(s, old, new) ==
    IF s = <<>> THEN <<>>
    ELSE (IF Head(s) = old THEN new ELSE <<Head(s)>>) \o Replace(Tail(s), old, new)

\* in_fname.replace('.nii.gz', '_faced.nii.gz')
BakFname(in_fname) == Replace(in_fname, ".nii.gz", <<"_faced", ".nii.gz">>)

Infiles == {<<"sub", ".nii.gz">>, <<"/", "sub", ".nii">>}

T1TemplateFname == <<"/", "templates", "ConteCore2_50_T1w_2mm", ".nii.gz">>

FacemaskFname == <<"/", "templates", "ConteCore2_50_2mm_deface_mask", ".nii.gz">>

Paths ==
    {RealPath(p) : p \in Infiles} \cup {BakFname(RealPath(p)) : p \in Infiles}
        \cup {T1TemplateFname, FacemaskFname}

---------------------------------------------------------------------------
(* Bundled assets: a 2 mm template and its deface mask on the same grid *)

TemplateDims == <<2, 2, 2>>

TemplateFov == <<4, 4, 4>>

TemplateImage ==
    Volume(TemplateDims, TemplateFov,
           [v \in Voxels(TemplateDims) |-> 1 + ((v[1] + v[2] + v[3]) % 2)])

\* binary: 1 on the slab of the template with first index 1, 0 elsewhere
FacemaskImage ==
    Volume(TemplateDims, TemplateFov,
           [v \in Voxels(TemplateDims) |-> IF v[1] = 1 THEN 1 ELSE 0])

\* The subject volumes the runs are started on
Shapes == (1 .. MaxDim) \X (1 .. MaxDim) \X (1 .. MaxDim)

SubjectImage(dims, spacing, seed) ==
    Volume(dims, [a \in Axes |-> dims[a] * spacing],
           [v \in Voxels(dims) |-> 1 + ((seed + v[1] + 2 * v[2] + 3 * v[3]) % 3)])

---------------------------------------------------------------------------
(* One invocation of main() *)

NotExited == -1

\* What the outside world decides at a step: whether the library call raises,
\* the transform a registration finds, how a write ends
WriteOutcomes == {"written", "failed", "truncated"}

Env0 == [ok |-> TRUE, tx |-> NoTransform, wr |-> "written"]

CallEnvs == {[Env0 EXCEPT !.ok = b] : b \in BOOLEAN}

RegistrationEnvs == {[Env0 EXCEPT !.tx = t] : t \in Transforms} \cup {[Env0 EXCEPT !.ok = FALSE]}

WriteEnvs == {[Env0 EXCEPT !.wr = w] : w \in WriteOutcomes}

\* print(msg)
Echo(r, msg) == [r EXCEPT !.out = Append(@, msg)]

\* if args.verbose: print(msg)
Progress(r, msg) == IF r.args.verbose THEN Echo(r, msg) ELSE r

\* sys.exit(status)
SysExit(r, status) == [r EXCEPT !.pc = "exit", !.status = status]

\* an exception nothing catches: traceback, exit status 1
Raise(r, stage) == SysExit([Echo(r, "Traceback") EXCEPT !.failedAt = stage], 1)

\* argparse's exit status for a usage error
ParserErrorStatus == 2

\* parser.parse_args(): -i/--infile is required=True
ParseArgs(r, e) ==
    IF r.args.infile = NoArg
    THEN SysExit(Echo(r, "usage: the following arguments are required: -i/--infile"),
                 ParserErrorStatus)
    ELSE [r EXCEPT !.pc = "version"]

\* if args.version: print version; sys.exit(1)
ShowVersion(r, e) ==
    IF r.args.version
    THEN SysExit(Echo(r, "VOXFACE version"), 1)
    ELSE [r EXCEPT !.pc = "infile"]

\* Python's truth value of args.infile: None and '' are false
Truthy(infile) == infile # NoArg /\ infile # <<>>

\* The else branch of `if args.infile:` with the sys.exit(1) left out
CheckInfile_NoExit(r, e) ==
    IF Truthy(r.args.infile)
    THEN LET in_fname == RealPath(r.args.infile)
         IN  Progress([r EXCEPT !.in_fname = in_fname,
                                !.bak_fname = BakFname(in_fname),
                                !.pc = "load_faced"],
                      "Facial Voxelator")
    ELSE [Echo(r, "* No faced image provided - exiting") EXCEPT !.pc = "load_faced"]

\* if args.infile: in_fname, bak_fname, banner; else message and sys.exit(1)
CheckInfile(r, e) ==
    IF Truthy(r.args.infile)
    THEN LET in_fname == RealPath(r.args.infile)
         IN  Progress([r EXCEPT !.in_fname = in_fname,
                                !.bak_fname = BakFname(in_fname),
                                !.pc = "load_faced"],
                      "Facial Voxelator")
    ELSE SysExit(Echo(r, "* No faced image provided - exiting"), 1)

\* ants.image_read(fname) raises unless fname holds a volume
CanRead(fs, fname) == fname \in DOMAIN fs /\ fs[fname].kind = "volume"

LoadFaced(r, e) ==
    LET r1 == Progress(r, "Loading faced image")
    IN  IF CanRead(r1.fs, r1.in_fname)
        THEN [r1 EXCEPT !.faced_ai = r1.fs[r1.in_fname], !.pc = "load_template"]
        ELSE Raise(r1, "load_faced")

LoadTemplate(r, e) ==
    LET r1 == Progress(r, "Loading T1 template")
    IN  IF CanRead(r1.fs, T1TemplateFname)
        THEN [r1 EXCEPT !.template_ai = r1.fs[T1TemplateFname], !.pc = "load_facemask"]
        ELSE Raise(r1, "load_template")

LoadFacemask(r, e) ==
    LET r1 == Progress(r, "Loading template facemask")
    IN  IF CanRead(r1.fs, FacemaskFname)
        THEN [r1 EXCEPT !.facemask_ai = r1.fs[FacemaskFname], !.pc = "register"]
        ELSE Raise(r1, "load_facemask")

\* A registration whose failure is reported and replaced by the identity
Registration_IdentityFallback(r, e) ==
    LET r1 == Progress(r, "Registering template to individual space")
    IN  IF e.ok
        THEN [r1 EXCEPT !.affine_tx = e.tx, !.pc = "apply_transforms"]
        ELSE [Echo(r1, "registration failed") EXCEPT
                 !.failedAt = "register",
                 !.affine_tx = [scale |-> 1, shift |-> 0],
                 !.pc = "apply_transforms"]

\* ants.registration(fixed=faced_ai, moving=template_ai, 'AffineFast')
Registration(r, e) ==
    LET r1 == Progress(r, "Registering template to individual space")
    IN  IF e.ok
        THEN [r1 EXCEPT !.affine_tx = e.tx, !.pc = "apply_transforms"]
        ELSE Raise(r1, "register")

\* apply_transforms with the template mask's own grid as the target
ApplyTransforms_FixedTemplate(r, e) ==
    LET r1 == Progress(r, "Applying transform to facemask")
    IN  IF e.ok
        THEN [r1 EXCEPT !.ind_facemask_ai =
                            ApplyTransformsImage(r1.facemask_ai, r1.facemask_ai, r1.affine_tx, 1),
                        !.pc = "downsampled_size"]
        ELSE Raise(r1, "apply_transforms")

\* ants.apply_transforms(fixed=faced_ai, moving=facemask_ai, fwdtransforms,
\* interpolator='nearestNeighbor')
ApplyTransforms(r, e) ==
    LET r1 == Progress(r, "Applying transform to facemask")
    IN  IF e.ok
        THEN [r1 EXCEPT !.ind_facemask_ai =
                            ApplyTransformsImage(r1.faced_ai, r1.facemask_ai, r1.affine_tx, 1),
                        !.pc = "downsampled_size"]
        ELSE Raise(r1, "apply_transforms")

\* vx, vy, vz = spacing; nx, ny, nz = shape; nx_dwn, ny_dwn, nz_dwn
DownsampledSize(r, e) ==
    LET v == Spacing(r.faced_ai)
        n == Shape(r.faced_ai)
    IN  [r EXCEPT !.n_dwn = <<DownsampledDim(n[1], v[1], r.args.voxdim),
                              DownsampledDim(n[2], v[2], r.args.voxdim),
                              DownsampledDim(n[3], v[3], r.args.voxdim)>>,
                  !.pc = "downsample"]

\* ants.resample_image(faced_ai, (nx_dwn, ny_dwn, nz_dwn), use_voxels, B-spline)
SplineDownsample(r, e) ==
    LET r1 == Progress(r, "Spline downsampling")
    IN  IF e.ok
        THEN [r1 EXCEPT !.faced_spdwn_ai = ResampleImage(r1.faced_ai, r1.n_dwn, 4),
                        !.pc = "upsample"]
        ELSE Raise(r1, "downsample")

\* An upsample that targets the coarse matrix size again
NearestUpsample_CoarseTarget(r, e) ==
    LET r1 == Progress(r, "Nearest neighbor upsampling")
    IN  IF e.ok
        THEN [r1 EXCEPT !.voxed_ai = ResampleImage(r1.faced_spdwn_ai, r1.n_dwn, 1),
                        !.pc = "composite"]
        ELSE Raise(r1, "upsample")

\* ants.resample_image(faced_spdwn_ai, (nx, ny, nz), use_voxels, nearest)
NearestUpsample(r, e) ==
    LET r1 == Progress(r, "Nearest neighbor upsampling")
    IN  IF e.ok
        THEN [r1 EXCEPT !.voxed_ai = ResampleImage(r1.faced_spdwn_ai, Shape(r1.faced_ai), 1),
                        !.pc = "composite"]
        ELSE Raise(r1, "upsample")

\* A compositing step that saves the voxelated volume to the input path as it goes
Composite_WriteAsYouGo(r, e) ==
    IF e.ok /\ Shape(r.ind_facemask_ai) = Shape(r.faced_ai)
            /\ Shape(r.voxed_ai) = Shape(r.faced_ai)
    THEN [r EXCEPT !.fs[r.in_fname] = r.voxed_ai,
                   !.writes = Append(@, r.in_fname),
                   !.voxfaced_ai = CompositeImage(r.faced_ai, r.ind_facemask_ai, r.voxed_ai),
                   !.pc = "backup"]
    ELSE Raise([r EXCEPT !.fs[r.in_fname] = r.voxed_ai, !.writes = Append(@, r.in_fname)],
               "composite")

\* ones_ai and voxfaced_ai; the arrays of the operands must have one shape
Composite(r, e) ==
    IF e.ok /\ Shape(r.ind_facemask_ai) = Shape(r.faced_ai)
            /\ Shape(r.voxed_ai) = Shape(r.faced_ai)
    THEN [r EXCEPT !.voxfaced_ai = CompositeImage(r.faced_ai, r.ind_facemask_ai, r.voxed_ai),
                   !.pc = "backup"]
    ELSE Raise(r, "composite")

\* AntsImage.to_filename(fname): the file holds the image, or the call raises
\* and leaves the file as it was or cut short
ToFilename(r, img, fname, wr, stage, next) ==
    LET r1 == [r EXCEPT !.writes = Append(@, fname)]
    IN  IF wr = "written"
        THEN [r1 EXCEPT !.fs[fname] = img, !.pc = next]
        ELSE IF wr = "truncated"
        THEN Raise([r1 EXCEPT !.fs[fname] = Truncated], stage)
        ELSE Raise(r1, stage)

\* The backup write indented under `if args.verbose:`
Backup_UnderVerbose(r, e) ==
    IF r.args.verbose
    THEN ToFilename(Progress(r, "Backing up original faced image"),
                    r.faced_ai, r.bak_fname, e.wr, "backup", "overwrite")
    ELSE [r EXCEPT !.pc = "overwrite"]

\* faced_ai.to_filename(bak_fname)
Backup(r, e) ==
    ToFilename(Progress(r, "Backing up original faced image"),
               r.faced_ai, r.bak_fname, e.wr, "backup", "overwrite")

\* voxfaced_ai.to_filename(in_fname)
Overwrite(r, e) ==
    ToFilename(Progress(r, "Overwriting with defaced/voxelated image"),
               r.voxfaced_ai, r.in_fname, e.wr, "overwrite", "finish")

\* the closing message; main() returns
Finish(r, e) == SysExit(Progress(r, "Completed"), 0)

Step(r, e) ==
    CASE r.pc = "parse" -> ParseArgs(r, e)
      [] r.pc = "version" -> ShowVersion(r, e)
      [] r.pc = "infile" -> CheckInfile(r, e)
      [] r.pc = "load_faced" -> LoadFaced(r, e)
      [] r.pc = "load_template" -> LoadTemplate(r, e)
      [] r.pc = "load_facemask" -> LoadFacemask(r, e)
      [] r.pc = "register" -> Registration(r, e)
      [] r.pc = "apply_transforms" -> ApplyTransforms(r, e)
      [] r.pc = "downsampled_size" -> DownsampledSize(r, e)
      [] r.pc = "downsample" -> SplineDownsample(r, e)
      [] r.pc = "upsample" -> NearestUpsample(r, e)
      [] r.pc = "composite" -> Composite(r, e)
      [] r.pc = "backup" -> Backup(r, e)
      [] r.pc = "overwrite" -> Overwrite(r, e)
      [] r.pc = "finish" -> Finish(r, e)
      [] OTHER -> r

---------------------------------------------------------------------------
(* The state machine *)

\* The package as installed: complete, or lacking one of the template files
Installs == {"complete", "no_template", "no_facemask"}

\* The files before the run: the bundled assets of the install, and the
\* subject volume at the input path when the path names an existing file
Files(infile, subject, exists, install) ==
    [p \in Paths |->
        IF p = T1TemplateFname
        THEN (IF install = "no_template" THEN NoVolume ELSE TemplateImage)
        ELSE IF p = FacemaskFname
        THEN (IF install = "no_facemask" THEN NoVolume ELSE FacemaskImage)
        ELSE IF exists /\ infile \in Infiles /\ p = RealPath(infile) THEN subject
        ELSE NoVolume]

Start(infile, version, voxdim, verbose, fs) ==
    [pc |-> "parse",
     args |-> [infile |-> infile, voxdim |-> voxdim, verbose |-> verbose, version |-> version],
     in_fname |-> <<>>, bak_fname |-> <<>>,
     faced_ai |-> NoVolume, template_ai |-> NoVolume, facemask_ai |-> NoVolume,
     affine_tx |-> NoTransform, ind_facemask_ai |-> NoVolume,
     n_dwn |-> <<0, 0, 0>>, faced_spdwn_ai |-> NoVolume, voxed_ai |-> NoVolume,
     voxfaced_ai |-> NoVolume,
     fs |-> fs, fs0 |-> fs, writes |-> <<>>, out |-> <<>>,
     status |-> NotExited, failedAt |-> "none"]

Init ==
    \E infile \in Infiles \cup {NoArg, <<>>}, version \in BOOLEAN, voxdim \in Voxdims,
       dims \in Shapes, spacing \in Spacings, seed \in Seeds, exists \in BOOLEAN,
       install \in Installs :
        LET fs == Files(infile, SubjectImage(dims, spacing, seed), exists, install)
        IN  /\ infile \notin Infiles => exists
            /\ run = Start(infile, version, voxdim, FALSE, fs)
            /\ twin = Start(infile, version, voxdim, TRUE, fs)

Both(e) == run' = Step(run, e) /\ twin' = Step(twin, e)

DoParseArgs == run.pc = "parse" /\ Both(Env0)

DoShowVersion == run.pc = "version" /\ Both(Env0)

DoCheckInfile == run.pc = "infile" /\ Both(Env0)

DoLoadFaced == run.pc = "load_faced" /\ Both(Env0)

DoLoadTemplate == run.pc = "load_template" /\ Both(Env0)

DoLoadFacemask == run.pc = "load_facemask" /\ Both(Env0)

DoRegistration == run.pc = "register" /\ \E e \in RegistrationEnvs : Both(e)

DoApplyTransforms == run.pc = "apply_transforms" /\ \E e \in CallEnvs : Both(e)

DoDownsampledSize == run.pc = "downsampled_size" /\ Both(Env0)

DoSplineDownsample == run.pc = "downsample" /\ \E e \in CallEnvs : Both(e)

DoNearestUpsample == run.pc = "upsample" /\ \E e \in CallEnvs : Both(e)

DoComposite == run.pc = "composite" /\ \E e \in CallEnvs : Both(e)

DoBackup == run.pc = "backup" /\ \E e \in WriteEnvs : Both(e)

DoOverwrite == run.pc = "overwrite" /\ \E e \in WriteEnvs : Both(e)

DoFinish == run.pc = "finish" /\ Both(Env0)

Next ==
    \/ DoParseArgs
    \/ DoShowVersion
    \/ DoCheckInfile
    \/ DoLoadFaced
    \/ DoLoadTemplate
    \/ DoLoadFacemask
    \/ DoRegistration
    \/ DoApplyTransforms
    \/ DoDownsampledSize
    \/ DoSplineDownsample
    \/ DoNearestUpsample
    \/ DoComposite
    \/ DoBackup
    \/ DoOverwrite
    \/ DoFinish

Spec == Init /\ [][Next]_vars

---------------------------------------------------------------------------
(* Properties *)

Runs == {run, twin}

IsVolume(img) == img.kind = "volume"

Succeeded(r) == r.pc = "exit" /\ r.status = 0

Range(f) == {f[x] : x \in DOMAIN f}

\* The spacing as a fraction equals the whole number of millimetres m
SpacingIs(v, m) == v[1] = m * v[2]

\* C1: the voxelated volume and the volume written to the input path have the
\* matrix size and the spacing of the subject volume, whatever the coarse
\* matrix size was.
C1_GridPreserved ==
    \A r \in Runs :
        /\ IsVolume(r.voxed_ai) => SameGrid(r.voxed_ai, r.faced_ai)
        /\ IsVolume(r.voxfaced_ai) => SameGrid(r.voxfaced_ai, r.faced_ai)
        /\ (r.in_fname \in Paths /\ IsVolume(r.fs[r.in_fname]))
               => SameGrid(r.fs[r.in_fname], r.fs0[r.in_fname])

C1_Witness ==
    /\ Succeeded(run)
    /\ \A a \in Axes : run.n_dwn[a] >= 1
    /\ run.n_dwn # Shape(run.faced_ai)
    /\ run.fs[run.in_fname] = run.voxfaced_ai
    /\ run.voxfaced_ai # run.faced_ai

\* C2: every voxel of the composite is subject * mask + voxelated * (1 - mask):
\* the subject's intensity where the mask is 1 and the voxelated intensity
\* where it is 0; an all-ones mask gives the subject and an all-zeros mask
\* the voxelated volume.
C2_CompositeLaw ==
    \A r \in Runs :
        IsVolume(r.voxfaced_ai) =>
            /\ \A v \in Voxels(Shape(r.faced_ai)) :
                   /\ r.voxfaced_ai.data[v] =
                          r.faced_ai.data[v] * r.ind_facemask_ai.data[v]
                              + r.voxed_ai.data[v] * (1 - r.ind_facemask_ai.data[v])
                   /\ r.ind_facemask_ai.data[v] = 1
                          => r.voxfaced_ai.data[v] = r.faced_ai.data[v]
                   /\ r.ind_facemask_ai.data[v] = 0
                          => r.voxfaced_ai.data[v] = r.voxed_ai.data[v]
            /\ Range(r.ind_facemask_ai.data) = {1} => r.voxfaced_ai.data = r.faced_ai.data
            /\ Range(r.ind_facemask_ai.data) = {0} => r.voxfaced_ai.data = r.voxed_ai.data

C2_Witness ==
    /\ IsVolume(run.voxfaced_ai)
    /\ Range(run.ind_facemask_ai.data) = {0, 1}
    /\ \E v \in Voxels(Shape(run.faced_ai)) :
           /\ run.ind_facemask_ai.data[v] = 0
           /\ run.voxed_ai.data[v] # run.faced_ai.data[v]
           /\ run.voxfaced_ai.data[v] = run.voxed_ai.data[v]
    /\ \E v \in Voxels(Shape(run.faced_ai)) :
           /\ run.ind_facemask_ai.data[v] = 1
           /\ run.voxed_ai.data[v] # run.faced_ai.data[v]
           /\ run.voxfaced_ai.data[v] = run.faced_ai.data[v]

\* C3: nothing is written before the composite exists; the writes are the
\* backup and then the overwrite of the input path, and only the end of the
\* run follows them; a volume at the input path is the original or the
\* finished composite.
C3_WriteLast ==
    \A r \in Runs :
        /\ ~IsVolume(r.voxfaced_ai) => (r.fs = r.fs0 /\ r.writes = <<>>)
        /\ r.writes \in {<<>>, <<r.bak_fname>>, <<r.bak_fname, r.in_fname>>}
        /\ r.writes # <<>> => r.pc \in {"overwrite", "finish", "exit"}
        /\ (r.in_fname \in Paths /\ IsVolume(r.fs[r.in_fname]))
               => r.fs[r.in_fname] \in {r.fs0[r.in_fname], r.voxfaced_ai}

C3_Witness ==
    /\ Succeeded(run)
    /\ run.writes = <<run.bak_fname, run.in_fname>>
    /\ run.bak_fname # run.in_fname
    /\ run.fs[run.in_fname] = run.voxfaced_ai
    /\ run.fs[run.in_fname] # run.fs0[run.in_fname]

\* C4: after a successful run the backup path differs from the input path and
\* holds the original subject volume, and the input path holds the
\* de-identified volume.
C4_BackupKeepsOriginal ==
    \A r \in Runs :
        Succeeded(r) =>
            /\ r.bak_fname # r.in_fname
            /\ r.fs[r.bak_fname] = r.fs0[r.in_fname]
            /\ r.fs[r.in_fname] = r.voxfaced_ai

\* C5: a run in which a stage before the writes failed has exited with a
\* non-zero status, ran no later stage, wrote nothing and left every file as
\* it was; a warped mask exists only with a transform the registration
\* returned.
FailingStages ==
    <<"load_faced", "load_template", "load_facemask", "register", "apply_transforms",
      "downsample", "upsample", "composite">>

\* whether the stage with this index has delivered its result
Delivered(r, i) ==
    CASE i = 1 -> IsVolume(r.faced_ai)
      [] i = 2 -> IsVolume(r.template_ai)
      [] i = 3 -> IsVolume(r.facemask_ai)
      [] i = 4 -> r.affine_tx # NoTransform
      [] i = 5 -> IsVolume(r.ind_facemask_ai)
      [] i = 6 -> IsVolume(r.faced_spdwn_ai)
      [] i = 7 -> IsVolume(r.voxed_ai)
      [] i = 8 -> IsVolume(r.voxfaced_ai)

C5_FailStop ==
    \A r \in Runs :
        /\ \A i \in DOMAIN FailingStages :
               r.failedAt = FailingStages[i] =>
                   /\ r.pc = "exit"
                   /\ r.status # 0
                   /\ r.status # NotExited
                   /\ \A j \in i .. Len(FailingStages) : ~Delivered(r, j)
                   /\ r.fs = r.fs0
                   /\ r.writes = <<>>
        /\ IsVolume(r.ind_facemask_ai) => r.affine_tx \in Transforms

C5_Witness ==
    /\ run.failedAt = "register"
    /\ twin.failedAt = "register"
    /\ IsVolume(run.facemask_ai)
    /\ IsVolume(run.fs0[run.in_fname])

\* C6: a run without an input file argument gets no further than the checks
\* of the arguments: it loads nothing, writes nothing, and exits with a
\* non-zero status after printing a message.
C6_MissingInfile ==
    \A r \in Runs :
        ~Truthy(r.args.infile) =>
            /\ r.pc \in {"parse", "version", "infile", "exit"}
            /\ \A i \in DOMAIN FailingStages : ~Delivered(r, i)
            /\ r.fs = r.fs0
            /\ r.writes = <<>>
            /\ r.pc = "exit" => (r.status > 0 /\ r.out # <<>>)

C6_Witness ==
    /\ run.pc = "exit"
    /\ run.args.infile = NoArg
    /\ run.status = ParserErrorStatus

\* C7: on every axis the coarse matrix size is round(dim * spacing / voxdim)
\* clamped to a minimum of 1, so it is at least 1.
C7_CoarseDimClamped ==
    \A r \in Runs :
        r.pc = "downsample" =>
            \A a \in Axes :
                /\ r.n_dwn[a] = Max(1, RoundHalfEven(Shape(r.faced_ai)[a] * Spacing(r.faced_ai)[a][1],
                                                     Spacing(r.faced_ai)[a][2] * r.args.voxdim))
                /\ r.n_dwn[a] >= 1

\* C8: the warped mask is on the subject's grid, was sampled with a transform
\* the registration returned, and holds only values of the template mask.
C8_MaskWarp ==
    \A r \in Runs :
        IsVolume(r.ind_facemask_ai) =>
            /\ SameGrid(r.ind_facemask_ai, r.faced_ai)
            /\ r.affine_tx \in Transforms
            /\ Range(r.ind_facemask_ai.data) \subseteq Range(r.facemask_ai.data)
            /\ Range(r.ind_facemask_ai.data) \subseteq {0, 1}

C8_Witness ==
    /\ IsVolume(run.ind_facemask_ai)
    /\ Shape(run.faced_ai) # Shape(run.facemask_ai)
    /\ Spacing(run.faced_ai) # Spacing(run.facemask_ai)
    /\ Range(run.ind_facemask_ai.data) = {0, 1}

\* C9: the run with --verbose and the run without it are at the same stage
\* with the same results, files, writes and exit status; only what they
\* printed differs.
Observable(r) == [r EXCEPT !.out = <<>>, !.args.verbose = FALSE]

C9_VerboseNoEffect == Observable(run) = Observable(twin)

C9_Witness ==
    /\ Succeeded(run)
    /\ Succeeded(twin)
    /\ ~run.args.verbose
    /\ twin.args.verbose
    /\ run.out # twin.out
    /\ run.fs # run.fs0

====
